---------------------------- MODULE Spec2Model ----------------------------
(***************************************************************************)
(* A model of tools/autotag/util/release_data.py: the remote tag index     *)
(* (fetch_tags, get_tag), the namespace and repository resolver            *)
(* (get_org, get_org_or_user, get_repos, create_release_lib_data) and the  *)
(* bundle builder (create_release_bundle_data, create_data_dict).          *)
(*                                                                         *)
(* Text is modelled as sequences of one-character strings, so that         *)
(* str.split, re.search, str.count and Version(...) are computed and not   *)
(* assumed.  A packaging Version is modelled by its release tuple, as      *)
(* written; it compares and hashes with its trailing zeros stripped and    *)
(* prints with the components it was written with.  A Python dict is a     *)
(* sequence of entries in insertion order.                                 *)
(***************************************************************************)
EXTENDS Naturals, Sequences, FiniteSets, TLC

VARIABLES
    tags,            \* ReleaseBundleFactory.tags: component name -> tag index
    orgs_and_users,  \* ReleaseBundleFactory.orgs_and_users: namespace -> handles
    pr_repos,        \* ReleaseBundleFactory.pr_repos: component name -> (repo, pr_repo)
    requested,       \* the listing requests: the names asked so far, the one asked now
    call,            \* the create_release_bundle_data frame (running or last ended)
    dd,              \* the create_data_dict frame (running or last ended)
    ret,             \* the last call that ended: its arguments, outcome and remote calls
    host,            \* the remote host: tags and releases of the source repository,
                     \* branches of the bot fork, pull requests of the PR repository
    disk             \* the directories that exist under the working directory

vars == <<tags, orgs_and_users, pr_repos, requested, call, dd, ret, host, disk>>

---------------------------------------------------------------------------
(* Text *)

TAB == "\t"
NL == "\n"
DOT == "."
Digits == <<"0", "1", "2", "3", "4", "5", "6", "7", "8", "9">>

IsDigit(c) == \E n \in 1..10 : Digits[n] = c

DigitVal(c) == (CHOOSE n \in 1..10 : Digits[n] = c) - 1

Min(S) == CHOOSE x \in S : \A y \in S : x <= y

\* str.split(sep): n separators give n + 1 pieces, "" gives [""].
RECURSIVE split(_, _)
split(s, sep) ==
    IF \A i \in 1..Len(s) : s[i] # sep
    THEN <<s>>
    ELSE LET p == Min({i \in 1..Len(s) : s[i] = sep})
         IN  <<SubSeq(s, 1, p - 1)>> \o split(SubSeq(s, p + 1, Len(s)), sep)

\* sep.join(pieces)
RECURSIVE join(_, _)
join(pieces, sep) ==
    IF Len(pieces) = 0 THEN <<>>
    ELSE IF Len(pieces) = 1 THEN pieces[1]
    ELSE pieces[1] \o <<sep>> \o join(Tail(pieces), sep)

\* str.count(c) for a one-character c
count(s, c) == Cardinality({i \in 1..Len(s) : s[i] = c})

\* s * n for a string s; n <= 0 gives "".
RECURSIVE repeat(_, _)
repeat(s, n) == IF n <= 0 THEN <<>> ELSE s \o repeat(s, n - 1)

\* int(text) for a run of digits
RECURSIVE ParseInt(_)
ParseInt(ds) ==
    IF Len(ds) = 0 THEN 0
    ELSE ParseInt(SubSeq(ds, 1, Len(ds) - 1)) * 10 + DigitVal(ds[Len(ds)])

---------------------------------------------------------------------------
(* The pattern rocm-\d+(\.\d+)+ of fetch_tags *)

RocmPrefix == <<"r", "o", "c", "m", "-">>

\* \d*: the index just past the run of digits that starts at i
RECURSIVE DigitsEnd(_, _)
DigitsEnd(s, i) ==
    IF i <= Len(s) /\ IsDigit(s[i]) THEN DigitsEnd(s, i + 1) ELSE i

\* (\.\d+)*, greedy: the index just past the groups that start at i
RECURSIVE GroupsEnd(_, _)
GroupsEnd(s, i) ==
    IF i <= Len(s) /\ s[i] = DOT /\ DigitsEnd(s, i + 1) > i + 1
    THEN GroupsEnd(s, DigitsEnd(s, i + 1))
    ELSE i

\* The index just past a match of the pattern that starts at p; 0 when none does.
MatchEnd(s, p) ==
    IF p + 4 <= Len(s) /\ SubSeq(s, p, p + 4) = RocmPrefix
    THEN LET a  == p + 5
             e1 == DigitsEnd(s, a)
             e2 == GroupsEnd(s, e1)
         IN  IF e1 > a /\ e2 > e1 THEN e2 ELSE 0
    ELSE 0

\* re.search(pattern, tag): the leftmost match and its group rocm_ver.
re_search(tag) ==
    LET hits == {p \in 1..Len(tag) : MatchEnd(tag, p) > 0}
    IN  IF hits = {}
        THEN [matched |-> FALSE, rocm_ver |-> <<>>]
        ELSE [matched |-> TRUE,
              rocm_ver |-> SubSeq(tag, Min(hits) + 5, MatchEnd(tag, Min(hits)) - 1)]

---------------------------------------------------------------------------
(* packaging.version.Version, as the module uses it *)

\* Version(text): the release tuple of a dotted number
Version(text) ==
    LET pieces == split(text, DOT)
    IN  [i \in 1..Len(pieces) |-> ParseInt(pieces[i])]

\* The comparison key of a Version: its release without trailing zeros.
RECURSIVE VersionKey(_)
VersionKey(v) ==
    IF Len(v) > 0 /\ v[Len(v)] = 0 THEN VersionKey(SubSeq(v, 1, Len(v) - 1)) ELSE v

\* Version.__eq__ (and __hash__)
VersionEq(a, b) == VersionKey(a) = VersionKey(b)

\* Tuple order of two comparison keys
RECURSIVE TupleLess(_, _)
TupleLess(a, b) ==
    IF Len(b) = 0 THEN FALSE
    ELSE IF Len(a) = 0 THEN TRUE
    ELSE IF a[1] # b[1] THEN a[1] < b[1]
    ELSE TupleLess(Tail(a), Tail(b))

\* Version.__lt__ and Version.__le__
VersionLess(a, b) == TupleLess(VersionKey(a), VersionKey(b))

VersionLeq(a, b) == VersionLess(a, b) \/ VersionEq(a, b)

\* str(version): the components as written
VersionStr(v) == v

---------------------------------------------------------------------------
(* A dict keyed by Version: entries [key, value] in insertion order *)

VersionIn(d, v) == \E i \in 1..Len(d) : VersionEq(d[i].key, v)

VersionGet(d, v) == d[CHOOSE i \in 1..Len(d) : VersionEq(d[i].key, v)].value

\* d[v] = value: an equal key keeps its place and its first spelling.
VersionSet(d, v, value) ==
    IF VersionIn(d, v)
    THEN [i \in 1..Len(d) |->
            IF VersionEq(d[i].key, v) THEN [key |-> d[i].key, value |-> value] ELSE d[i]]
    ELSE Append(d, [key |-> v, value |-> value])

VersionKeys(d) == [i \in 1..Len(d) |-> d[i].key]

---------------------------------------------------------------------------
(* ReleaseBundleFactory.fetch_tags *)

\* rocm_ver += ".0" * (2 - rocm_ver.count("."))
PadVersion(rocm_ver) == rocm_ver \o repeat(<<DOT, "0">>, 2 - count(rocm_ver, DOT))

\* The loop of fetch_tags over the lines of the listing, from line i on.
RECURSIVE fetch_tags_loop(_, _, _)
fetch_tags_loop(lines, i, result) ==
    IF i > Len(lines)
    THEN [exc |-> "", value |-> result]
    ELSE LET column == split(lines[i], TAB)
         IN  IF Len(column) < 2
             THEN [exc |-> "IndexError", value |-> <<>>]
             ELSE LET sha == column[1]
                      tag == column[2]
                      tag_match == re_search(tag)
                  IN  IF ~tag_match.matched
                      THEN fetch_tags_loop(lines, i + 1, result)
                      ELSE fetch_tags_loop(lines, i + 1,
                               VersionSet(result,
                                          Version(PadVersion(tag_match.rocm_ver)),
                                          sha))

\* fetch_tags on the text that ls_remote("--tags", url) answered.
fetch_tags(output) == fetch_tags_loop(split(output, NL), 1, <<>>)

---------------------------------------------------------------------------
(* Values *)

\* None, for an Optional slot that otherwise holds a one-element tuple
None == <<>>

Some(x) == <<x>>

\* A dict with string keys whose order is never read: a function
EmptyDict == <<>>

DictPut(d, k, v) == [x \in DOMAIN d \cup {k} |-> IF x = k THEN v ELSE d[x]]

\* A repository name: the component name and a suffix ("" or "-internal")
RepoName(name, suffix) == <<name, suffix>>

\* github handles: a namespace (organization or user) and a repository
Namespace(session, kind, login) == [session |-> session, kind |-> kind, login |-> login]

Repository(session, owner, reponame) ==
    [session |-> session, owner |-> owner, name |-> reponame]

\* The caches of the class as a step finds them, threaded through the methods;
\* req is the history of listing requests, with none made yet by this step.
Caches ==
    [tags |-> tags, orgs |-> orgs_and_users, repos |-> pr_repos,
     req |-> [once |-> requested.once, now |-> None]]

\* A method's outcome: the exception raised ("" for none), the value returned,
\* the caches it leaves and the remote calls it made, in order.
Outcome(exc, value, s, log) == [exc |-> exc, value |-> value, s |-> s, log |-> log]

---------------------------------------------------------------------------
(* Namespace and repository resolver *)

\* ReleaseBundleFactory.get_org
get_org(f, remote) ==
    IF remote \in DOMAIN f.remotes THEN f.remotes[remote] ELSE f.default_remote

\* The exception a remote call raises when it fails in transport: the host is
\* not reached, or answers with a server error.  The failure is named after the
\* call it strikes: "get_repo", "ls_remote" or "get_branch" ("" for none).
transport_error(fault) ==
    IF fault = "ls_remote" THEN "GitCommandError" ELSE "ConnectionError"

\* A call named by the failure was made, and so failed.
struck(log, fault) ==
    fault # "" /\ \E i \in 1..Len(log) : log[i].op = fault

\* A variant that keeps the source organization when only the PR organization
\* is unknown, and pairs it with the PR user
lookup_org_or_user_mixed(name, env) ==
    LET ask(op, session, found) ==
            [op |-> op, session |-> session, owner |-> name,
             name |-> <<"", "">>, found |-> found]
        orgLog == <<ask("get_organization", "gh", env.ghOrg)>>
                    \o (IF env.ghOrg THEN <<ask("get_organization", "pr", env.prOrg)>>
                        ELSE <<>>)
        userLog == <<ask("get_user", "gh", env.ghUser)>>
                     \o (IF env.ghUser THEN <<ask("get_user", "pr", env.prUser)>>
                         ELSE <<>>)
    IN  IF env.ghOrg /\ env.prOrg
        THEN [exc |-> "",
              value |-> <<[session |-> "gh", kind |-> "org", login |-> name],
                          [session |-> "pr", kind |-> "org", login |-> name]>>,
              log |-> orgLog]
        ELSE IF env.ghUser /\ env.prUser
        THEN [exc |-> "",
              value |-> <<[session |-> "gh", kind |-> (IF env.ghOrg THEN "org" ELSE "user"),
                           login |-> name],
                          [session |-> "pr", kind |-> "user", login |-> name]>>,
              log |-> orgLog \o userLog]
        ELSE [exc |-> "ValueError", value |-> <<>>, log |-> orgLog \o userLog]

\* The organization-then-user lookup shared by both get_org_or_user methods.
\* env holds the host's answers: ghOrg, prOrg, ghUser, prUser (found or not).
lookup_org_or_user(name, env) ==
    LET ask(op, session, found) ==
            [op |-> op, session |-> session, owner |-> name,
             name |-> RepoName("", ""), found |-> found]
        orgLog == <<ask("get_organization", "gh", env.ghOrg)>>
                    \o (IF env.ghOrg THEN <<ask("get_organization", "pr", env.prOrg)>>
                        ELSE <<>>)
        userLog == <<ask("get_user", "gh", env.ghUser)>>
                     \o (IF env.ghUser THEN <<ask("get_user", "pr", env.prUser)>>
                         ELSE <<>>)
    IN  IF env.ghOrg /\ env.prOrg
        THEN [exc |-> "",
              value |-> <<Namespace("gh", "org", name), Namespace("pr", "org", name)>>,
              log |-> orgLog]
        ELSE IF env.ghUser /\ env.prUser
        THEN [exc |-> "",
              value |-> <<Namespace("gh", "user", name), Namespace("pr", "user", name)>>,
              log |-> orgLog \o userLog]
        ELSE [exc |-> "ValueError", value |-> None, log |-> orgLog \o userLog]

\* ReleaseBundleFactory.get_org_or_user
get_org_or_user(remote, s, env) ==
    LET stored(r) ==
            IF r.exc # ""
            THEN Outcome(r.exc, None, s, r.log)
            ELSE Outcome("", r.value,
                         [s EXCEPT !.orgs = DictPut(s.orgs, remote, r.value)], r.log)
    IN  IF remote \in DOMAIN s.orgs
        THEN Outcome("", s.orgs[remote], s, <<>>)
        ELSE stored(lookup_org_or_user(remote, env))

\* A variant that never looks for the "-internal" mirror
lookup_repos_no_mirror(gh_ns, pr_ns, name, env) ==
    LET ask(ns, suffix, found) ==
            [op |-> "get_repo", session |-> ns.session, owner |-> ns.login,
             name |-> <<name, suffix>>, found |-> found]
        log == <<ask(gh_ns, "", env.src)>>
    IN  IF ~env.src
        THEN [exc |-> "UnknownObjectException", value |-> <<>>, log |-> log]
        ELSE IF env.plain
        THEN [exc |-> "",
              value |-> <<[session |-> gh_ns.session, owner |-> gh_ns.login,
                           name |-> <<name, "">>],
                          [session |-> pr_ns.session, owner |-> pr_ns.login,
                           name |-> <<name, "">>]>>,
              log |-> log \o <<ask(pr_ns, "", env.plain)>>]
        ELSE [exc |-> "UnknownObjectException", value |-> <<>>,
              log |-> log \o <<ask(pr_ns, "", env.plain)>>]

\* repo = gh_ns.get_repo(name); pr_repo = pr_ns.get_repo(name + "-internal"),
\* or pr_ns.get_repo(name) when that is unknown.  env holds the host's answers:
\* src, internal, plain (found or not).
lookup_repos(gh_ns, pr_ns, name, env) ==
    LET ask(ns, suffix, found) ==
            [op |-> "get_repo", session |-> ns.session, owner |-> ns.login,
             name |-> RepoName(name, suffix), found |-> found]
        srcLog   == <<ask(gh_ns, "", env.src)>>
        intLog   == srcLog \o <<ask(pr_ns, "-internal", env.internal)>>
        plainLog == intLog \o <<ask(pr_ns, "", env.plain)>>
        repo     == Repository(gh_ns.session, gh_ns.login, RepoName(name, ""))
    IN  IF env.fault = "get_repo"
        THEN [exc |-> transport_error(env.fault), value |-> None, log |-> srcLog]
        ELSE IF ~env.src
        THEN [exc |-> "UnknownObjectException", value |-> None, log |-> srcLog]
        ELSE IF env.internal
        THEN [exc |-> "",
              value |-> <<repo, Repository(pr_ns.session, pr_ns.login,
                                           RepoName(name, "-internal"))>>,
              log |-> intLog]
        ELSE IF env.plain
        THEN [exc |-> "",
              value |-> <<repo, Repository(pr_ns.session, pr_ns.login,
                                           RepoName(name, ""))>>,
              log |-> plainLog]
        ELSE [exc |-> "UnknownObjectException", value |-> None, log |-> plainLog]

\* ReleaseBundleFactory.get_repos
get_repos(f, name, remote, s, env) ==
    LET org == get_org(f, remote)
        stored(ns, r) ==
            IF r.exc # ""
            THEN Outcome(r.exc, None, ns.s, ns.log \o r.log)
            ELSE Outcome("", r.value,
                         [ns.s EXCEPT !.repos = DictPut(ns.s.repos, name, r.value)],
                         ns.log \o r.log)
        resolved(ns) ==
            IF ns.exc # ""
            THEN Outcome(ns.exc, None, ns.s, ns.log)
            ELSE stored(ns, lookup_repos(ns.value[1], ns.value[2], name, env))
    IN  IF name \in DOMAIN s.repos
        THEN Outcome("", s.repos[name], s, <<>>)
        ELSE resolved(get_org_or_user(org, s, env))

\* ReleaseDataFactory.create_release_lib_data; rdf is the factory: its org and
\* pr_org (None when constructed without org_name) and its rocm_version.
create_release_lib_data(rdf, name, commit, org, env) ==
    LET built(ns, r) ==
            IF r.exc # ""
            THEN [exc |-> r.exc, value |-> None, log |-> ns.log \o r.log]
            ELSE [exc |-> "",
                  value |-> [name |-> name, repo |-> r.value[1], pr_repo |-> r.value[2],
                             commit |-> commit,
                             rocm_version |-> VersionStr(rdf.rocm_version),
                             group |-> "", category |-> ""],
                  log |-> ns.log \o r.log]
        resolved(ns) ==
            IF ns.exc # ""
            THEN [exc |-> ns.exc, value |-> None, log |-> ns.log]
            ELSE built(ns, lookup_repos(ns.value[1], ns.value[2], name, env))
    IN  IF rdf.org = None \/ rdf.pr_org = None
        THEN resolved(lookup_org_or_user(org, env))
        ELSE resolved([exc |-> "", value |-> <<rdf.org[1], rdf.pr_org[1]>>, log |-> <<>>])

---------------------------------------------------------------------------
(* Remote tag index *)

\* The history of listing requests: the names whose listing was requested in an
\* earlier step or this one (once) and the name requested by this step (now).
NoteRequest(s, name) ==
    [s EXCEPT !.req = [once |-> s.req.once \cup {name}, now |-> Some(name)]]

\* "name in self.tags"
tags_cached(name, s) == name \in DOMAIN s.tags

\* ReleaseBundleFactory.get_tag.  env.listing is what ls_remote answers.
get_tag(f, name, version, s, env) ==
    LET answer(filled) ==
            IF filled.exc # ""
            THEN filled
            ELSE IF ~VersionIn(filled.s.tags[name], version)
            THEN Outcome("", None, filled.s, filled.log)
            ELSE Outcome("", Some(VersionGet(filled.s.tags[name], version)),
                         filled.s, filled.log)
        stored(r, s1, ls, got) ==
            IF got.exc # ""
            THEN Outcome(got.exc, None, s1, r.log \o <<ls>>)
            ELSE Outcome("", None,
                         [s1 EXCEPT !.tags = DictPut(s1.tags, name, got.value)],
                         r.log \o <<ls>>)
        fetched(r) ==
            IF r.exc # ""
            THEN r
            ELSE stored(r, NoteRequest(r.s, name),
                        [op |-> "ls_remote", session |-> "git",
                         owner |-> r.value[1].owner, name |-> r.value[1].name,
                         found |-> env.fault # "ls_remote"],
                        IF env.fault = "ls_remote"
                        THEN [exc |-> transport_error(env.fault), value |-> EmptyDict]
                        ELSE fetch_tags(env.listing))
    IN  IF tags_cached(name, s)
        THEN answer(Outcome("", None, s, <<>>))
        ELSE answer(fetched(get_repos(f, name, "None", s, env)))

---------------------------------------------------------------------------
(* Bundle builder *)

\* util.mappings.group_mapping and category_mapping: key -> label.  The key ""
\* (a suppressed label) maps to the empty label.
group_mapping ==
    [k \in {"", "G1", "G2"} |->
        IF k = "" THEN "" ELSE IF k = "G1" THEN "Group one" ELSE "Group two"]

category_mapping ==
    [k \in {"", "K1", "K2"} |->
        IF k = "" THEN "" ELSE IF k = "K1" THEN "Category one" ELSE "Category two"]

\* libraries[name] = lib, in a dict that keeps insertion order
LibrariesSet(libraries, lib) ==
    IF \E i \in 1..Len(libraries) : libraries[i].name = lib.name
    THEN [i \in 1..Len(libraries) |->
            IF libraries[i].name = lib.name THEN lib ELSE libraries[i]]
    ELSE Append(libraries, lib)

\* The frame of create_release_bundle_data before its loop.
bundle_frame(f, version, component_info, is_untagged, nested) ==
    [status |-> "running", f |-> f, version |-> version,
     component_info |-> component_info, is_untagged |-> is_untagged,
     nested |-> nested, i |-> 1,
     libraries |-> <<>>, missing_branches |-> <<>>,
     prev_group |-> None, prev_category |-> None,
     exc |-> "", branch_lookups |-> <<>>, remote_faults |-> <<>>]

\* "not commit": None or the empty string
Falsy(commit) == commit = None \/ commit = Some(<<>>)

\* The release branch fallback: repo.get_branch(self.branch).commit.sha, any
\* exception taken as a missing branch.  env.branch is the host's answer: the tip
\* commit, or None when it reports no such branch.
branch_fallback(f, repo, env) ==
    LET failed == f.branch # None /\ env.fault = "get_branch"
        found == f.branch # None /\ ~failed /\ env.branch # None
    IN  [found |-> found,
         commit |-> IF found THEN env.branch ELSE None,
         log |-> <<[op |-> "get_branch", session |-> repo.session, owner |-> repo.owner,
                    name |-> repo.name, found |-> found, tip |-> env.branch,
                    exc |-> IF failed THEN transport_error(env.fault) ELSE ""]>>]

\* A variant that shows every label
suppress_never(prev, key) == [shown |-> key, prev |-> Some(key)]

\* if prev == key: key = "", else: prev = key
suppress(prev, key) ==
    IF prev = Some(key) THEN [shown |-> "", prev |-> prev]
    ELSE [shown |-> key, prev |-> Some(key)]

\* Whether the fallback may be taken for a component without a tag
fallback_allowed(is_untagged) == is_untagged

\* One pass of the loop of create_release_bundle_data, on component fr.i.  The
\* frame keeps the release-branch lookups made (branch_lookups).
bundle_step(fr, s, env) ==
    LET f == fr.f
        c == fr.component_info[fr.i]
        met(log) ==
            fr.remote_faults
               \o (IF struck(log, env.fault) THEN <<transport_error(env.fault)>> ELSE <<>>)
        raised(exc, s1, log) ==
            [fr |-> [fr EXCEPT !.status = "raised", !.exc = exc,
                               !.remote_faults = met(log)],
             s |-> s1]
        skipped(s1, lookups, missing, log) ==
            [fr |-> [fr EXCEPT !.i = fr.i + 1,
                               !.branch_lookups = fr.branch_lookups \o lookups,
                               !.missing_branches = fr.missing_branches \o missing,
                               !.remote_faults = met(log)],
             s |-> s1]
        included(r, commit, s1, lookups, log) ==
            LET g == suppress(fr.prev_group, c.group)
                k == suppress(fr.prev_category, c.category)
                lib == [name |-> c.name, repo |-> r.value[1], pr_repo |-> r.value[2],
                        commit |-> commit[1],
                        rocm_version |-> VersionStr(fr.version),
                        group |-> group_mapping[g.shown],
                        category |-> category_mapping[k.shown]]
            IN  [fr |-> [fr EXCEPT !.i = fr.i + 1,
                                   !.branch_lookups = fr.branch_lookups \o lookups,
                                   !.prev_group = g.prev, !.prev_category = k.prev,
                                   !.libraries = LibrariesSet(fr.libraries, lib),
                                   !.remote_faults = met(log)],
                 s |-> s1]
        fallen_back(r, t, b) ==
            IF b.found THEN included(r, b.commit, t.s, b.log, r.log \o t.log \o b.log)
            ELSE skipped(t.s, b.log, <<[branch |-> f.branch, name |-> c.name]>>,
                         r.log \o t.log \o (IF b.log[1].exc # "" THEN b.log ELSE <<>>))
        looked_up(r, t) ==
            IF t.exc # "" THEN raised(t.exc, t.s, r.log \o t.log)
            ELSE IF ~Falsy(t.value) THEN included(r, t.value, t.s, <<>>, r.log \o t.log)
            ELSE IF ~fallback_allowed(fr.is_untagged)
            THEN skipped(t.s, <<>>, <<>>, r.log \o t.log)
            ELSE fallen_back(r, t, branch_fallback(f, r.value[1], env))
        resolved(r) ==
            IF r.exc # "" THEN raised(r.exc, r.s, r.log)
            ELSE looked_up(r, get_tag(f, c.name, fr.version, r.s, env))
    IN  resolved(get_repos(f, c.name, c.remote, s, env))

\* data = ReleaseBundle(version=version, libraries=libraries)
ReleaseBundle(fr) == [version |-> fr.version, libraries |-> fr.libraries]

---------------------------------------------------------------------------
(* create_data_dict *)

\* "up_to_version not in versions" compares a str with each Version: a Version
\* equals only a Version, so the str equals none of them.
str_eq_version(text, v) == FALSE

str_in_versions(text, versions) ==
    \E i \in 1..Len(versions) : str_eq_version(text, versions[i])

\* list.sort() is stable: v goes before the first element greater than it.
insert_sorted(sorted, v) ==
    LET greater == {i \in 1..Len(sorted) : VersionLess(v, sorted[i])}
        at == IF greater = {} THEN Len(sorted) + 1 ELSE Min(greater)
    IN  SubSeq(sorted, 1, at - 1) \o <<v>> \o SubSeq(sorted, at, Len(sorted))

RECURSIVE sort_from(_, _, _)
sort_from(versions, i, sorted) ==
    IF i > Len(versions) THEN sorted
    ELSE sort_from(versions, i + 1, insert_sorted(sorted, versions[i]))

sort(versions) == sort_from(versions, 1, <<>>)

\* data[key] = value, in a dict keyed by str that keeps insertion order
DataSet(data, key, value) ==
    IF \E i \in 1..Len(data) : data[i].key = key
    THEN [i \in 1..Len(data) |->
            IF data[i].key = key THEN [key |-> key, value |-> value] ELSE data[i]]
    ELSE Append(data, [key |-> key, value |-> value])

\* A variant that enables the fallback for every version up to max_version
can_be_untagged_up_to_max(version, max_version) == VersionLeq(version, max_version)

\* can_be_untagged = version == max_version
can_be_untagged(version, max_version) == VersionEq(version, max_version)

\* version >= Version(min_version) and version <= max_version
in_range(version, min_version, max_version) ==
    VersionLeq(Version(min_version), version) /\ VersionLeq(version, max_version)

\* create_data_dict up to its loop; env.listing is what ls_remote answers for
\* the product repository.
data_dict_frame(f, up_to_version, component_information, min_version, env) ==
    LET max_version == Version(up_to_version)
        ls == [op |-> "ls_remote", session |-> "git", owner |-> "ROCm",
               name |-> RepoName("ROCm", ""), found |-> TRUE]
        base(rocm_tags) ==
            [status |-> "running", f |-> f, up_to_version |-> up_to_version,
             min_version |-> min_version,
             component_information |-> component_information,
             max_version |-> max_version,
             rocm_tags |-> rocm_tags.value, versions |-> <<>>, j |-> 1,
             data |-> <<>>, builds |-> <<>>, exc |-> "", log |-> <<ls>>]
        listed(rocm_tags, versions) ==
            [base(rocm_tags) EXCEPT !.versions =
                sort(IF ~str_in_versions(up_to_version, versions)
                     THEN Append(versions, max_version)
                     ELSE versions)]
        fetched(rocm_tags) ==
            IF rocm_tags.exc # ""
            THEN [base(rocm_tags) EXCEPT !.status = "raised", !.exc = rocm_tags.exc]
            ELSE listed(rocm_tags, VersionKeys(rocm_tags.value))
    IN  fetched(fetch_tags(env.listing))

---------------------------------------------------------------------------
(* ReleaseLib: the release orchestrator *)

\* util.util.get_yn_input(prompt, yn): the answer supplied by the caller, or the
\* user's answer when none was supplied
get_yn_input(yn, answer) == IF yn = None THEN answer ELSE yn[1]

\* A variant of the guard that never returns early
declined_never(yn, answer) == FALSE

\* "if not get_yn_input(...): return"
declined(yn, answer) == ~get_yn_input(yn, answer)

\* A variant that leaves the version as written
full_version_as_written(lib) == lib.rocm_version

\* ReleaseLib.full_version
full_version(lib) ==
    IF count(lib.rocm_version, DOT) > 1
    THEN lib.rocm_version
    ELSE lib.rocm_version \o <<DOT, "0">>

\* ReleaseLib.tag
tag(lib) == RocmPrefix \o full_version(lib)

\* ReleaseLib.branch
branch(lib) == <<"release/rocm-rel-">> \o lib.rocm_version

\* f"rocm-{self.rocm_version}": the name of the second tag
alias_tag(lib) == RocmPrefix \o lib.rocm_version

\* The failure of a host that is asked to create what it already has
AlreadyExists == "GithubException: already_exists"

HostHasTag(h, name) == \E i \in 1..Len(h.tags) : h.tags[i].name = name

HostHasRelease(h, name) == \E i \in 1..Len(h.releases) : h.releases[i].tag = name

\* Repository.create_git_tag as the host sees it: fault is the failure the
\* request meets ("" for none); the host rejects a tag that already exists.
create_git_tag(h, name, object, fault) ==
    IF fault # "" THEN [exc |-> fault, host |-> h]
    ELSE IF HostHasTag(h, name) THEN [exc |-> AlreadyExists, host |-> h]
    ELSE [exc |-> "",
          host |-> [h EXCEPT !.tags = Append(@, [name |-> name, object |-> object])]]

\* Repository.create_git_release for a tag, as the host sees it
create_git_release(h, name, fault) ==
    IF fault # "" THEN [exc |-> fault, host |-> h]
    ELSE IF HostHasRelease(h, name) THEN [exc |-> AlreadyExists, host |-> h]
    ELSE [exc |-> "", host |-> [h EXCEPT !.releases = Append(@, [tag |-> name])]]

\* A variant of the handler that lets every exception through
absorbs_nothing(exc) == FALSE

\* "except Exception": every failure of the requests is an Exception
absorbs(exc) == TRUE

\* ReleaseLib.do_release on host h.  env holds the failure each request meets:
\* tag and release (create_git_tag_and_release is create_git_tag followed by
\* create_git_release) and alias (the second create_git_tag).
do_release(lib, release_yn, answer, env, h) ==
    LET request(op, name, r) ==
            [op |-> op, name |-> name, object |-> lib.commit, exc |-> r.exc]
        done(h1, log) == [exc |-> "", absorbed |-> "", host |-> h1, log |-> log]
        caught(exc, h1, log) ==
            IF absorbs(exc)
            THEN [exc |-> "", absorbed |-> exc, host |-> h1, log |-> log]
            ELSE [exc |-> exc, absorbed |-> "", host |-> h1, log |-> log]
        ended(r, log) ==
            IF r.exc # "" THEN caught(r.exc, r.host, log) ELSE done(r.host, log)
        aliased(log, a) ==
            ended(a, log \o <<request("create_git_tag", alias_tag(lib), a)>>)
        released(log, r) ==
            IF r.exc # "" \/ lib.rocm_version = full_version(lib)
            THEN ended(r, log \o <<request("create_git_release", tag(lib), r)>>)
            ELSE aliased(log \o <<request("create_git_release", tag(lib), r)>>,
                         create_git_tag(r.host, alias_tag(lib), lib.commit, env.alias))
        tagged(t) ==
            IF t.exc # ""
            THEN ended(t, <<request("create_git_tag", tag(lib), t)>>)
            ELSE released(<<request("create_git_tag", tag(lib), t)>>,
                          create_git_release(t.host, tag(lib), env.release))
    IN  IF ~get_yn_input(release_yn, answer)
        THEN done(h, <<>>)
        ELSE tagged(create_git_tag(h, tag(lib), lib.commit, env.tag))

\* The steps of do_create_pull inside "with Repo.init(repo_loc) as local", in
\* order; each but the last raises GitCommandError when it fails.
GitSteps ==
    <<"create_remote external", "fetch external", "create_remote fork", "fetch fork",
      "create_head", "checkout", "push">>

\* The head of the pull request: the release branch in the bot fork
pull_head(lib) == <<"ROCmMathLibrariesBot:">> \o branch(lib)

\* ReleaseLib.do_create_pull on host h with the directories d under the working
\* directory.  env.git is the step of GitSteps that raises (0: none does);
\* env.push is what Remote.push reports when it does not raise: it returns the
\* outcome of a rejected or failed push in its result (raise_if_error is for the
\* caller to call) and the handler drops the result; env.pr is the failure that
\* create_pull meets.  The host opens no pull request from a head it lacks.
do_create_pull(lib, create_pull_yn, answer, env, h, d) ==
    LET repo_loc == lib.name
        step(op, exc, result) == [op |-> op, exc |-> exc, result |-> result]
        ends(exc, value, h1, d1, log) ==
            [exc |-> exc, value |-> value, host |-> h1, disk |-> d1, log |-> log]
        removed == IF repo_loc \in d THEN <<step("rmtree", "", "ok")>> ELSE <<>>
        inited == removed \o <<step("Repo.init", "", "ok")>>
        ran(k) ==
            [i \in 1..k |->
                step(GitSteps[i],
                     IF i = env.git THEN "GitCommandError" ELSE "",
                     IF i = env.git THEN "raised"
                     ELSE IF GitSteps[i] = "push" THEN env.push ELSE "ok")]
        pushed == IF env.push = "ok"
                  THEN [h EXCEPT !.branches = DictPut(@, branch(lib), lib.commit)]
                  ELSE h
        pr == [head |-> pull_head(lib), base |-> "develop", repo |-> lib.pr_repo]
        opened(h1, log) ==
            IF env.pr # ""
            THEN ends(env.pr, None, h1, d \ {repo_loc},
                      log \o <<step("create_pull", env.pr, "raised")>>)
            ELSE IF branch(lib) \notin DOMAIN h1.branches
            THEN ends("GithubException: invalid head", None, h1, d \ {repo_loc},
                      log \o <<step("create_pull", "GithubException: invalid head",
                                    "raised")>>)
            ELSE ends("", Some(pr), [h1 EXCEPT !.pulls = Append(@, pr)],
                      d \ {repo_loc}, log \o <<step("create_pull", "", "ok")>>)
    IN  IF declined(create_pull_yn, answer)
        THEN ends("", None, h, d, <<>>)
        ELSE IF env.git # 0
        THEN ends("GitCommandError", None, h, d \cup {repo_loc}, inited \o ran(env.git))
        ELSE opened(pushed,
                    inited \o ran(Len(GitSteps)) \o <<step("rmtree", "", "ok")>>)

---------------------------------------------------------------------------
(* Inputs: what callers pass and what the remote host answers *)

MaxLines == 3
MaxDictComponents == 1

RefsTags == <<"r", "e", "f", "s", "/", "t", "a", "g", "s", "/">>

\* One line of ls-remote --tags: "<sha>\t<ref name>"
TagLine(sha, ref) == sha \o <<TAB>> \o RefsTags \o ref

Rocm(ver) == RocmPrefix \o ver

\* Lines a tag listing may hold, each with the commit id it carries and the
\* version its ref name spells (None: not a rocm- tag).  The last is the empty
\* line that an empty listing splits into.
TagLines ==
    { [text |-> TagLine(<<"c", "1">>, Rocm(<<"6", ".", "1">>)),
       sha |-> <<"c", "1">>, ver |-> Some(<<6, 1, 0>>)],
      [text |-> TagLine(<<"c", "2">>, Rocm(<<"6", ".", "1", ".", "0">>)),
       sha |-> <<"c", "2">>, ver |-> Some(<<6, 1, 0>>)],
      [text |-> TagLine(<<"c", "3">>, Rocm(<<"6", ".", "2", ".", "1">>)),
       sha |-> <<"c", "3">>, ver |-> Some(<<6, 2, 1>>)],
      [text |-> TagLine(<<"c", "4">>, <<"v", "1", ".", "0">>),
       sha |-> <<"c", "4">>, ver |-> None],
      [text |-> TagLine(<<"c", "5">>, Rocm(<<"6", ".", "2", ".", "0", ".", "1">>)),
       sha |-> <<"c", "5">>, ver |-> Some(<<6, 2, 0, 1>>)],
      [text |-> TagLine(<<"c", "6">>, Rocm(<<"6">>)),
       sha |-> <<"c", "6">>, ver |-> None],
      [text |-> TagLine(<<"c", "7">>, Rocm(<<"1", "0", ".", "0", "^", "{", "}">>)),
       sha |-> <<"c", "7">>, ver |-> Some(<<10, 0, 0>>)],
      [text |-> <<>>, sha |-> <<>>, ver |-> None] }

\* The listings of at most n lines
ListingsUpTo(n) == UNION {[1..k -> TagLines] : k \in 0..n}

\* The text ls_remote answers for a listing
ListingText(lines) == join([i \in 1..Len(lines) |-> lines[i].text], NL)

\* Listings of component repositories: no tags at all; rocm-6.1 alone; rocm-6.1.0,
\* rocm-6.2.0 and an unrelated tag.
ComponentListings ==
    { <<>>,
      TagLine(<<"a", "1">>, Rocm(<<"6", ".", "1">>)),
      join(<<TagLine(<<"b", "1">>, Rocm(<<"6", ".", "1", ".", "0">>)),
             TagLine(<<"b", "2">>, Rocm(<<"6", ".", "2", ".", "0">>)),
             TagLine(<<"b", "9">>, <<"v", "1", ".", "0">>)>>, NL) }

\* Listings of the product repository
ProductListings ==
    { <<>>,
      join(<<TagLine(<<"p", "1">>, Rocm(<<"6", ".", "1", ".", "0">>)),
             TagLine(<<"p", "0">>, Rocm(<<"6", ".", "0", ".", "0">>))>>, NL),
      join(<<TagLine(<<"p", "1">>, Rocm(<<"6", ".", "1">>)),
             TagLine(<<"p", "2">>, Rocm(<<"6", ".", "2", ".", "0">>)),
             TagLine(<<"p", "3">>, Rocm(<<"6", ".", "3", ".", "0">>))>>, NL) }

\* The tip commit of a release branch, or None when the host has no such branch
BranchAnswers == {None, Some(<<"t", "i", "p">>)}

\* Product versions asked for
Versions == {<<6, 1, 0>>, <<6, 2>>}

UpToVersions == {<<"6", ".", "2">>, <<"6", ".", "2", ".", "0">>, <<"6", ".", "1", ".", "0">>}

MinVersions == {<<"5", ".", "0", ".", "0">>, <<"6", ".", "1">>}

Names == {"libA", "libB", "libC"}

\* The manifest's components: (name, remote, group, category)
Components ==
    { [name |-> "libA", remote |-> "rocm-org", group |-> "G1", category |-> "K1"],
      [name |-> "libB", remote |-> "rocm-org", group |-> "G1", category |-> "K2"],
      [name |-> "libC", remote |-> "rocm-org", group |-> "G2", category |-> "K2"] }

\* The component lists: the manifest's components in every order
ComponentInfos ==
    {ci \in [1..Cardinality(Components) -> Components] :
        \A i, j \in 1..Len(ci) : ci[i].name = ci[j].name => i = j}

\* The component lists create_data_dict is called with: the first components of
\* a manifest
DictComponentInfos ==
    {SubSeq(ci, 1, k) : ci \in ComponentInfos,
                        k \in 1..Min({MaxDictComponents, Cardinality(Components)})}

\* ReleaseBundleFactory instances (default_remote, remotes, branch) that build
\* bundles: one with a release branch configured and one without
Factories ==
    { [default_remote |-> "ROCm",
       remotes |-> [r \in {"roc-github"} |-> "RadeonOpenCompute"],
       branch |-> Some("release/rocm-rel-6.2")],
      [default_remote |-> "ROCm",
       remotes |-> [r \in {"roc-github"} |-> "RadeonOpenCompute"],
       branch |-> None] }

\* Instances that differ in their remotes
ResolverFactories ==
    { [default_remote |-> "ROCm",
       remotes |-> [r \in {"roc-github"} |-> "RadeonOpenCompute"],
       branch |-> None],
      [default_remote |-> "ROCm", remotes |-> EmptyDict, branch |-> None] }

\* ReleaseDataFactory instances: constructed without and with org_name
DataFactories ==
    { [org |-> None, pr_org |-> None, rocm_version |-> <<6, 2>>],
      [org |-> Some(Namespace("gh", "org", "ROCm")),
       pr_org |-> Some(Namespace("pr", "org", "ROCm")),
       rocm_version |-> <<6, 2, 0>>] }

\* The entries released: one component at a version written with two and with
\* three components
ReleaseLibs ==
    { [name |-> "libA",
       repo |-> Repository("gh", "ROCm", RepoName("libA", "")),
       pr_repo |-> Repository("pr", "ROCm", RepoName("libA", "-internal")),
       commit |-> <<"c", "1">>,
       rocm_version |-> v] : v \in {<<"6", ".", "2">>, <<"6", ".", "2", ".", "0">>} }

\* release_yn and create_pull_yn: None, True or False; and the user's answers
YnInputs == {None, Some(TRUE), Some(FALSE)}

\* The failures a request to the host may meet on its way ("": none): a
\* transport failure, or a refusal by the host (permission, unknown commit)
RequestFaults == {"", "ConnectionError", "GithubException: refused"}

\* The user is asked only when the caller supplied no answer.
AnswersTo(yn) == IF yn = None THEN BOOLEAN ELSE {FALSE}

\* The host's answers to do_release: no request is made after one that failed,
\* and none at all without confirmation.
ReleaseEnvs(confirmed) ==
    {env \in [tag : RequestFaults, release : RequestFaults, alias : RequestFaults] :
        /\ env.tag # "" => env.release = ""
        /\ (env.tag # "" \/ env.release # "") => env.alias = ""
        /\ ~confirmed => env.tag = "" /\ env.release = "" /\ env.alias = ""}

\* The host's and git's answers to do_create_pull: nothing follows a step that
\* raised, and nothing is run without confirmation.
PullEnvs(confirmed) ==
    {env \in [git : 0..Len(GitSteps), push : {"ok", "rejected"}, pr : RequestFaults] :
        /\ env.git # 0 => env.push = "ok" /\ env.pr = ""
        /\ ~confirmed => env.git = 0 /\ env.push = "ok" /\ env.pr = ""}

\* The calls of the orchestrator made in one process
MaxRuns == 3

\* The namespaces asked for by name
OrgNames == {"ROCm", "RadeonOpenCompute"}

\* The host's answers while bundles are built: every namespace and repository
\* is found; listing and branch vary.
BundleEnvs ==
    [ghOrg : {TRUE}, prOrg : {TRUE}, ghUser : {FALSE}, prUser : {FALSE},
     src : {TRUE}, internal : {TRUE}, plain : {TRUE},
     listing : ComponentListings, branch : BranchAnswers, fault : {""}]

\* The remote calls of a bundle build that a transport failure may strike
TransportFaults == {"get_repo", "ls_remote", "get_branch"}

\* The host's answers while bundles are built over a connection that may fail:
\* within a step, no call fails or the calls of one kind do.
TransportEnvs ==
    [ghOrg : {TRUE}, prOrg : {TRUE}, ghUser : {FALSE}, prUser : {FALSE},
     src : {TRUE}, internal : {TRUE}, plain : {TRUE},
     listing : ComponentListings, branch : BranchAnswers,
     fault : {""} \cup TransportFaults]

\* The host's answers to create_data_dict's own request: the product listing
ProductEnvs ==
    [ghOrg : {TRUE}, prOrg : {TRUE}, ghUser : {FALSE}, prUser : {FALSE},
     src : {TRUE}, internal : {TRUE}, plain : {TRUE},
     listing : ProductListings, branch : {None}, fault : {""}]

\* The host's answers to the resolver: every lookup may be found or not.
ResolverEnvs ==
    [ghOrg : BOOLEAN, prOrg : BOOLEAN, ghUser : BOOLEAN, prUser : BOOLEAN,
     src : BOOLEAN, internal : BOOLEAN, plain : BOOLEAN,
     listing : {<<>>}, branch : {None}, fault : {""}]

---------------------------------------------------------------------------
(* The state machine *)

NoCall == [status |-> "none"]

NoRet == [op |-> "none"]

\* A host with no tag, release, fork branch or pull request yet
NoHost == [tags |-> <<>>, releases |-> <<>>, branches |-> EmptyDict, pulls |-> <<>>]

Init ==
    /\ tags = EmptyDict
    /\ orgs_and_users = EmptyDict
    /\ pr_repos = EmptyDict
    /\ requested = [once |-> {}, now |-> None]
    /\ call = NoCall
    /\ dd = NoCall
    /\ ret = NoRet
    /\ host = NoHost
    /\ disk = {}

\* The caches and the request history as a step of the factories leaves them;
\* the factories write nothing to the host or to the working directory.
Install(s) ==
    /\ tags' = s.tags
    /\ orgs_and_users' = s.orgs
    /\ pr_repos' = s.repos
    /\ requested' = s.req
    /\ UNCHANGED <<host, disk>>

\* No call is running and the caller holds no result: the next call may start.
Idle == call.status = "none" /\ dd.status = "none" /\ ret.op = "none"

\* The caller is done with the result of the call that ended.
Resume ==
    /\ call.status # "running"
    /\ dd.status # "running"
    /\ ret.op \notin {"none", "pending"}
    /\ call' = NoCall
    /\ dd' = NoCall
    /\ ret' = NoRet
    /\ Install(Caches)

\* fetch_tags is about to be called on a listing.
InitFetch ==
    /\ tags = EmptyDict
    /\ orgs_and_users = EmptyDict
    /\ pr_repos = EmptyDict
    /\ requested = [once |-> {}, now |-> None]
    /\ call = NoCall
    /\ dd = NoCall
    /\ \E lines \in ListingsUpTo(MaxLines) : ret = [op |-> "pending", lines |-> lines]
    /\ host = NoHost
    /\ disk = {}

\* The call of fetch_tags on the listing
FetchTagsCall ==
    /\ ret.op = "pending"
    /\ ret' = [op |-> "fetch_tags", lines |-> ret.lines]
                @@ fetch_tags(ListingText(ret.lines))
    /\ Install(Caches)
    /\ UNCHANGED <<call, dd>>

\* A call of get_repos
GetRepos(f, name, remote, env) ==
    LET returns(r) ==
            /\ Install(r.s)
            /\ ret' = [op |-> "get_repos", f |-> f, name |-> name, remote |-> remote,
                       exc |-> r.exc, value |-> r.value, log |-> r.log]
    IN  /\ Idle
        /\ returns(get_repos(f, name, remote, Caches, env))
        /\ UNCHANGED <<call, dd>>

\* A call of create_release_lib_data
CreateReleaseLibData(rdf, name, commit, org, env) ==
    /\ Idle
    /\ LET r == create_release_lib_data(rdf, name, commit, org, env)
       IN  ret' = [op |-> "create_release_lib_data", rdf |-> rdf, name |-> name,
                   org |-> org, exc |-> r.exc, value |-> r.value, log |-> r.log]
    /\ Install(Caches)
    /\ UNCHANGED <<call, dd>>

\* A call of ReleaseBundleFactory.get_org_or_user
GetOrgOrUser(remote, env) ==
    LET returns(r) ==
            /\ Install(r.s)
            /\ ret' = [op |-> "get_org_or_user", cached |-> TRUE, name |-> remote,
                       exc |-> r.exc, value |-> r.value, log |-> r.log]
    IN  /\ Idle
        /\ returns(get_org_or_user(remote, Caches, env))
        /\ UNCHANGED <<call, dd>>

\* A call of ReleaseDataFactory.get_org_or_user, which keeps no cache
DataGetOrgOrUser(name, env) ==
    LET returns(r) ==
            ret' = [op |-> "get_org_or_user", cached |-> FALSE, name |-> name,
                    exc |-> r.exc, value |-> r.value, log |-> r.log]
    IN  /\ Idle
        /\ returns(lookup_org_or_user(name, env))
        /\ Install(Caches)
        /\ UNCHANGED <<call, dd>>

\* A call of get_tag
GetTag(f, name, version, env) ==
    LET returns(r) ==
            /\ Install(r.s)
            /\ ret' = [op |-> "get_tag", f |-> f, name |-> name, version |-> version,
                       exc |-> r.exc, value |-> r.value, log |-> r.log]
    IN  /\ Idle
        /\ returns(get_tag(f, name, version, Caches, env))
        /\ UNCHANGED <<call, dd>>

\* create_release_bundle_data is called.
BundleStart(f, version, component_info, is_untagged) ==
    /\ Idle
    /\ call' = bundle_frame(f, version, component_info, is_untagged, FALSE)
    /\ ret' = NoRet
    /\ Install(Caches)
    /\ UNCHANGED dd

\* One pass of its loop; an exception ends the call, and create_data_dict with it.
BundleStep(env) ==
    LET passed(out) ==
            /\ Install(out.s)
            /\ call' = out.fr
            /\ IF out.fr.status = "raised"
               THEN /\ ret' = [op |-> "create_release_bundle_data", exc |-> out.fr.exc,
                               value |-> None]
                    /\ dd' = IF call.nested
                             THEN [dd EXCEPT !.status = "raised", !.exc = out.fr.exc]
                             ELSE dd
               ELSE UNCHANGED <<ret, dd>>
    IN  /\ call.status = "running"
        /\ call.i <= Len(call.component_info)
        /\ passed(bundle_step(call, Caches, env))

\* It returns the bundle; within create_data_dict, data[str(version)] = bundle.
BundleReturn ==
    /\ call.status = "running"
    /\ call.i > Len(call.component_info)
    /\ call' = [call EXCEPT !.status = "returned"]
    /\ ret' = [op |-> "create_release_bundle_data", exc |-> "",
               value |-> ReleaseBundle(call)]
    /\ dd' = IF call.nested
             THEN [dd EXCEPT !.data = DataSet(dd.data, VersionStr(call.version),
                                              ReleaseBundle(call)),
                             !.builds = Append(dd.builds, call),
                             !.j = dd.j + 1]
             ELSE dd
    /\ Install(Caches)

\* create_data_dict is called: the product tags are fetched and sorted.
DictStart(f, up_to_version, component_information, min_version, env) ==
    LET started(frame) ==
            /\ dd' = frame
            /\ ret' = IF frame.status = "raised"
                      THEN [op |-> "create_data_dict", exc |-> frame.exc, value |-> None]
                      ELSE NoRet
    IN  /\ Idle
        /\ started(data_dict_frame(f, up_to_version, component_information,
                                   min_version, env))
        /\ call' = NoCall
        /\ Install(Caches)

\* One pass of its loop: a version in range gets its bundle built.
DictStep ==
    /\ dd.status = "running"
    /\ call.status # "running"
    /\ dd.j <= Len(dd.versions)
    /\ LET version == dd.versions[dd.j]
       IN  IF in_range(version, dd.min_version, dd.max_version)
           THEN /\ call' = bundle_frame(dd.f, version, dd.component_information,
                                        can_be_untagged(version, dd.max_version), TRUE)
                /\ dd' = dd
           ELSE /\ dd' = [dd EXCEPT !.j = dd.j + 1]
                /\ call' = call
    /\ ret' = NoRet
    /\ Install(Caches)

\* It returns data.
DictReturn ==
    /\ dd.status = "running"
    /\ call.status # "running"
    /\ dd.j > Len(dd.versions)
    /\ dd' = [dd EXCEPT !.status = "returned"]
    /\ ret' = [op |-> "create_data_dict", exc |-> "", value |-> dd.data]
    /\ Install(Caches)
    /\ UNCHANGED call

\* The orchestrator's calls so far, and what is kept of the last one
Runs == IF ret.op = "none" THEN 0 ELSE ret.seq

LastRun ==
    IF ret.op = "none" THEN NoRet
    ELSE [op |-> ret.op, lib |-> ret.lib, confirmed |-> ret.confirmed,
          exc |-> ret.exc, log |-> ret.log]

\* The release orchestrator starts on a host with nothing released, with or
\* without a directory left under the working directory.
InitRelease ==
    /\ tags = EmptyDict
    /\ orgs_and_users = EmptyDict
    /\ pr_repos = EmptyDict
    /\ requested = [once |-> {}, now |-> None]
    /\ call = NoCall
    /\ dd = NoCall
    /\ ret = NoRet
    /\ host = NoHost
    /\ disk \in SUBSET {"libA"}

\* A call of do_release
DoRelease(lib, release_yn, answer, env) ==
    LET returns(r) ==
            /\ host' = r.host
            /\ ret' = [op |-> "do_release", seq |-> Runs + 1, lib |-> lib,
                       confirmed |-> get_yn_input(release_yn, answer),
                       exc |-> r.exc, absorbed |-> r.absorbed, value |-> None,
                       log |-> r.log, before |-> [host |-> host, disk |-> disk],
                       prev |-> LastRun]
    IN  /\ Runs < MaxRuns
        /\ returns(do_release(lib, release_yn, answer, env, host))
        /\ UNCHANGED <<tags, orgs_and_users, pr_repos, requested, call, dd, disk>>

\* A call of do_create_pull
DoCreatePull(lib, create_pull_yn, answer, env) ==
    LET returns(r) ==
            /\ host' = r.host
            /\ disk' = r.disk
            /\ ret' = [op |-> "do_create_pull", seq |-> Runs + 1, lib |-> lib,
                       confirmed |-> get_yn_input(create_pull_yn, answer),
                       exc |-> r.exc, absorbed |-> "", value |-> r.value,
                       log |-> r.log, before |-> [host |-> host, disk |-> disk],
                       prev |-> LastRun]
    IN  /\ Runs < MaxRuns
        /\ returns(do_create_pull(lib, create_pull_yn, answer, env, host, disk))
        /\ UNCHANGED <<tags, orgs_and_users, pr_repos, requested, call, dd>>

\* The release orchestrator
NextRelease ==
    \/ \E lib \in ReleaseLibs, yn \in YnInputs :
          \E answer \in AnswersTo(yn) :
             \E env \in ReleaseEnvs(get_yn_input(yn, answer)) :
                DoRelease(lib, yn, answer, env)
    \/ \E lib \in ReleaseLibs, yn \in YnInputs :
          \E answer \in AnswersTo(yn) :
             \E env \in PullEnvs(get_yn_input(yn, answer)) :
                DoCreatePull(lib, yn, answer, env)

SpecRelease == InitRelease /\ [][NextRelease]_vars

\* The tag index and the bundle builder
Next ==
    \/ \E f \in Factories, name \in Names, version \in Versions, env \in BundleEnvs :
          GetTag(f, name, version, env)
    \/ \E f \in Factories, version \in Versions, ci \in ComponentInfos, u \in BOOLEAN :
          BundleStart(f, version, ci, u)
    \/ \E env \in BundleEnvs : BundleStep(env)
    \/ BundleReturn
    \/ Resume

Spec == Init /\ [][Next]_vars

\* The bundle builder over a connection that may fail
NextTransport ==
    \/ \E f \in Factories, version \in Versions, ci \in ComponentInfos, u \in BOOLEAN :
          BundleStart(f, version, ci, u)
    \/ \E env \in TransportEnvs : BundleStep(env)
    \/ BundleReturn
    \/ Resume

SpecTransport == Init /\ [][NextTransport]_vars

\* fetch_tags alone, over every listing of at most MaxLines lines
NextFetch == FetchTagsCall

SpecFetch == InitFetch /\ [][NextFetch]_vars

\* create_data_dict and the bundles it builds
NextDict ==
    \/ \E f \in Factories, up_to_version \in UpToVersions, ci \in DictComponentInfos,
          min_version \in MinVersions, env \in ProductEnvs :
          DictStart(f, up_to_version, ci, min_version, env)
    \/ DictStep
    \/ \E env \in BundleEnvs : BundleStep(env)
    \/ BundleReturn
    \/ DictReturn
    \/ Resume

SpecDict == Init /\ [][NextDict]_vars

\* The resolver alone, with a host that may know or not know every name
NextRepos ==
    \/ \E f \in ResolverFactories, name \in {"libA", "libB"},
          remote \in {"roc-github", "None"}, env \in ResolverEnvs :
          GetRepos(f, name, remote, env)
    \/ \E rdf \in DataFactories, name \in {"libA"}, org \in {"ROCm"}, env \in ResolverEnvs :
          CreateReleaseLibData(rdf, name, <<"c", "1">>, org, env)
    \/ \E remote \in OrgNames, env \in ResolverEnvs : GetOrgOrUser(remote, env)
    \/ \E name \in OrgNames, env \in ResolverEnvs : DataGetOrgOrUser(name, env)
    \/ Resume

SpecRepos == Init /\ [][NextRepos]_vars

---------------------------------------------------------------------------
(* Claims about fetch_tags, checked under SpecFetch *)

Max(S) == CHOOSE x \in S : \A y \in S : y <= x

\* The lines of the listing whose ref name spells a rocm- version
VersionLines(lines) == {i \in 1..Len(lines) : lines[i].ver # None}

\* The map of a listing: each version that a line spells is sent to the commit id
\* of the last line spelling it, and nothing else has an entry.
IsLastWinsMap(d, lines) ==
    /\ \A i \in VersionLines(lines) :
          /\ VersionIn(d, lines[i].ver[1])
          /\ VersionGet(d, lines[i].ver[1]) =
                lines[Max({j \in VersionLines(lines) :
                             VersionEq(lines[j].ver[1], lines[i].ver[1])})].sha
    /\ \A k \in 1..Len(d) :
          /\ \E i \in VersionLines(lines) : VersionEq(d[k].key, lines[i].ver[1])
          /\ \A m \in 1..Len(d) : VersionEq(d[m].key, d[k].key) => m = k

\* C6: for any tag listing, fetch_tags returns exactly the map that sends each
\* version to the commit id of the last line, in listing order, whose ref name
\* carries rocm- and a dotted number canonicalising to it; other ref names
\* contribute no entry.
C6_LastLineWins ==
    ret.op = "fetch_tags" => ret.exc = "" /\ IsLastWinsMap(ret.value, ret.lines)

\* The same of the calls that return: holds, so C6 fails only where fetch_tags
\* raises.
ReturnedMapIsLastWins ==
    (ret.op = "fetch_tags" /\ ret.exc = "") => IsLastWinsMap(ret.value, ret.lines)

\* C7: every version key of a map returned by fetch_tags has exactly three
\* numeric components, for every listing whose ref names all match rocm- followed
\* by a dotted number of any length.
C7_ThreeComponentKeys ==
    (/\ ret.op = "fetch_tags"
     /\ ret.exc = ""
     /\ \A i \in 1..Len(ret.lines) : ret.lines[i].ver # None)
        => \A k \in 1..Len(ret.value) : Len(ret.value[k].key) = 3

\* C8: fetch_tags never fails because of the content of the listing: every line
\* without a rocm- version tag, the single empty line of an empty listing
\* included, is discarded, and the call returns a map, empty when nothing matched.
C8_NeverFailsOnContent ==
    ret.op = "fetch_tags"
        => /\ ret.exc = ""
           /\ VersionLines(ret.lines) = {} => ret.value = <<>>

---------------------------------------------------------------------------
(* Claims about get_tag and create_release_bundle_data, checked under Spec *)

\* A call of create_release_bundle_data has ended, by returning or by raising.
BundleEnded == call.status \in {"returned", "raised"}

\* The component of the list that a library was built from
ComponentOf(fr, lib) ==
    CHOOSE c \in {fr.component_info[i] : i \in 1..Len(fr.component_info)} :
        c.name = lib.name

\* A component's tag index holds the version.
Tagged(name, version) == name \in DOMAIN tags /\ VersionIn(tags[name], version)

\* The components of the list whose tag index holds the version, in list order
TaggedComponents(fr) ==
    SelectSeq(fr.component_info, LAMBDA c : Tagged(c.name, fr.version))

\* The libraries are exactly the tagged components, in list order, each at the
\* commit its tag index records for the version.
TaggedBundle(fr) ==
    LET expected == TaggedComponents(fr)
    IN  /\ Len(fr.libraries) = Len(expected)
        /\ \A k \in 1..Len(expected) :
              /\ fr.libraries[k].name = expected[k].name
              /\ fr.libraries[k].commit = VersionGet(tags[expected[k].name], fr.version)

\* C1: create_release_bundle_data(version, components, is_untagged=False)
\* returns, without raising, a bundle whose libraries are exactly the components
\* whose tag index contains the version, in component-list order, each with the
\* commit recorded for the version; a component with no tag is absent.
C1_TaggedOnlyBundle ==
    (BundleEnded /\ ~call.is_untagged)
        => /\ call.status = "returned"
           /\ ret.value = ReleaseBundle(call)
           /\ TaggedBundle(call)

\* The same of the calls that return: holds, so C1 fails only where the call
\* raises.
ReturnedTaggedOnlyBundle ==
    (call.status = "returned" /\ ~call.is_untagged) => TaggedBundle(call)

\* The release-branch lookups a call made for a component
LookupsFor(fr, name) ==
    SelectSeq(fr.branch_lookups, LAMBDA e : e.name = RepoName(name, ""))

\* The missing-branches entries of a call that name a component
MissingFor(fr, name) ==
    SelectSeq(fr.missing_branches, LAMBDA m : m.name = name)

LibrariesNamed(fr, name) ==
    SelectSeq(fr.libraries, LAMBDA lib : lib.name = name)

\* What a call with the fallback enabled did with each component: a tagged one
\* is included without a branch lookup; an untagged one has one lookup of the
\* configured branch, and is included at the tip when the branch exists, absent
\* and named once in missing_branches when it does not.
FallbackBundle(fr) ==
    /\ \A i \in 1..Len(fr.component_info) :
          LET name    == fr.component_info[i].name
              lookups == LookupsFor(fr, name)
              libs    == LibrariesNamed(fr, name)
              missing == MissingFor(fr, name)
          IN  IF Tagged(name, fr.version)
              THEN /\ lookups = <<>>
                   /\ missing = <<>>
                   /\ Len(libs) = 1
                   /\ libs[1].commit = VersionGet(tags[name], fr.version)
              ELSE /\ Len(lookups) = 1
                   /\ lookups[1].found = (fr.f.branch # None /\ lookups[1].tip # None)
                   /\ IF lookups[1].found
                      THEN /\ Len(libs) = 1
                           /\ libs[1].commit = lookups[1].tip[1]
                           /\ missing = <<>>
                      ELSE /\ libs = <<>>
                           /\ missing = <<[branch |-> fr.f.branch, name |-> name]>>
    /\ Len(fr.missing_branches) =
          Len(SelectSeq(fr.branch_lookups, LAMBDA e : ~e.found))
    /\ Len(fr.libraries) + Len(fr.missing_branches) = Len(fr.component_info)

\* C2: create_release_bundle_data with is_untagged=True: a component with no tag
\* for the version is included at the tip commit of the configured release branch
\* when the branch exists in its source repository; when it does not, the
\* component is absent, the build still completes, and missing_branches gains
\* exactly one entry naming that branch and that component; missing_branches is
\* empty when no branch lookup missed.
C2_BranchFallback ==
    (BundleEnded /\ call.is_untagged)
        => /\ call.status = "returned"
           /\ FallbackBundle(call)

\* The same of the calls that return: holds, so C2 fails only where the call
\* raises.
ReturnedBranchFallback ==
    (call.status = "returned" /\ call.is_untagged) => FallbackBundle(call)

\* The label a library shows for a key, given the library included before it in
\* the same call (none for the first): empty when the keys are equal.
ShownLabel(mapping, key, k, prev_key) ==
    IF k > 1 /\ prev_key = key THEN mapping[""] ELSE mapping[key]

\* C3: in one create_release_bundle_data call, the display group of an included
\* component is the empty display value exactly when its group key equals the
\* group key of the nearest preceding included component (skipped components
\* neither count nor reset), and the mapped label of its key otherwise; the first
\* included component of a call is never suppressed; likewise for the category.
C3_LabelSuppression ==
    call.status \in {"running", "returned", "raised"}
        => \A k \in 1..Len(call.libraries) :
              LET c    == ComponentOf(call, call.libraries[k])
                  prev == IF k > 1 THEN ComponentOf(call, call.libraries[k - 1]) ELSE c
              IN  /\ call.libraries[k].group =
                        ShownLabel(group_mapping, c.group, k, prev.group)
                  /\ call.libraries[k].category =
                        ShownLabel(category_mapping, c.category, k, prev.category)
                  /\ (call.libraries[k].group = "") = (k > 1 /\ prev.group = c.group)
                  /\ (call.libraries[k].category = "")
                        = (k > 1 /\ prev.category = c.category)

\* C3 witness: a second call in the process returned two libraries with a
\* skipped component of another group between them; the later library's group
\* is suppressed across the gap, its category is shown, and the first library
\* shows both labels although an earlier call ended on the same keys.
C3_Witness ==
    /\ call.status = "returned"
    /\ requested.once # {}
    /\ requested.now = None
    /\ Len(call.component_info) = 3
    /\ Len(call.libraries) = 2
    /\ call.libraries[1].name = call.component_info[1].name
    /\ call.libraries[2].name = call.component_info[3].name
    /\ call.component_info[2].group # call.component_info[1].group
    /\ call.component_info[3].group = call.component_info[1].group
    /\ call.libraries[1].group # ""
    /\ call.libraries[1].category # ""
    /\ call.libraries[2].group = ""
    /\ call.libraries[2].category # ""

\* A listing request made by a step is the first for its component name.
FirstRequest == requested'.now # None => requested'.now[1] \notin requested.once

\* A listing request is made by a step only for a name with no stored index.
NoRequestOnceStored == requested'.now # None => requested'.now[1] \notin DOMAIN tags

\* A get_tag call that finds the index stored answers from it: the commit the
\* stored index holds for the version, None when it holds none.
AnswersFromStored ==
    (ret'.op = "get_tag" /\ ret'.name \in DOMAIN tags)
        => /\ ret'.exc = ""
           /\ ret'.log = <<>>
           /\ tags' = tags
           /\ ret'.value = IF VersionIn(tags[ret'.name], ret'.version)
                           THEN Some(VersionGet(tags[ret'.name], ret'.version))
                           ELSE None

\* A stored index is never replaced or dropped.
StoredIndexKept == \A name \in DOMAIN tags : name \in DOMAIN tags' /\ tags'[name] = tags[name]

\* C9: over any sequence of get_tag and create_release_bundle_data calls, on any
\* instances, the tag listing of a component is requested at most once per
\* component name: once a listing is fetched and stored, every later lookup for
\* the component, at any version, present or not, makes no listing request and
\* answers from the stored index.
C9_ListingRequestedOnce ==
    [][FirstRequest /\ NoRequestOnceStored /\ AnswersFromStored /\ StoredIndexKept]_vars

\* The part of C9 about stored listings: holds, so C9 fails only for a component
\* whose fetch raised and stored nothing.
StoredListingNotRequestedAgain ==
    [][NoRequestOnceStored /\ AnswersFromStored /\ StoredIndexKept]_vars

---------------------------------------------------------------------------
(* Claims about create_data_dict, checked under SpecDict *)

\* The keys of the returned mapping, in insertion order
DataKeys(d) == [i \in 1..Len(d.data) |-> d.data[i].key]

\* The product-tagged versions within [min_version, up_to_version], united with
\* up_to_version, each in canonical form
ExpectedVersions(d) ==
    {VersionKey(d.rocm_tags[i].key) :
        i \in {k \in 1..Len(d.rocm_tags) :
                 in_range(d.rocm_tags[k].key, d.min_version, d.max_version)}}
    \cup {VersionKey(Version(d.up_to_version))}

\* C4: create_data_dict(up_to_version, components, min_version) returns a mapping
\* with exactly one key per distinct version among the product-tagged versions
\* within [min_version, up_to_version] united with up_to_version, each key the
\* version's three-component string, in ascending version order; no two keys
\* denote the same version, whether or not up_to_version is already tagged and
\* whether it was given with two or three components.
C4_OneKeyPerVersion ==
    dd.status = "returned"
        => LET keys == DataKeys(dd)
           IN  /\ \A i \in 1..Len(keys) : Len(keys[i]) = 3
               /\ \A i, j \in 1..Len(keys) : i < j => VersionLess(keys[i], keys[j])
               /\ {VersionKey(keys[i]) : i \in 1..Len(keys)} = ExpectedVersions(dd)

\* The bundle builds of a create_data_dict call: those that returned and the
\* one running
BuildsOf(d) ==
    {d.builds[i] : i \in 1..Len(d.builds)}
    \cup (IF call.status # "none" /\ call.nested THEN {call} ELSE {})

\* C5: in create_data_dict the release-branch fallback is enabled only for the
\* bundle of up_to_version: for every version in the result strictly below
\* up_to_version no branch lookup is made and every library of that bundle has
\* the commit of that component's tag for that version.
C5_FallbackOnlyForMax ==
    dd.status \in {"running", "returned", "raised"}
        => \A b \in BuildsOf(dd) :
              VersionLess(b.version, dd.max_version)
                 => /\ ~b.is_untagged
                    /\ b.branch_lookups = <<>>
                    /\ b.missing_branches = <<>>
                    /\ \A k \in 1..Len(b.libraries) :
                          /\ Tagged(b.libraries[k].name, b.version)
                          /\ b.libraries[k].commit =
                                VersionGet(tags[b.libraries[k].name], b.version)

\* C5 witness: create_data_dict returned after building a bundle of an earlier
\* version that left an untagged component out, a bundle of an earlier version
\* with a library, and the bundle of up_to_version with a branch lookup.
C5_Witness ==
    /\ dd.status = "returned"
    /\ \E i \in 1..Len(dd.builds) :
          /\ VersionLess(dd.builds[i].version, dd.max_version)
          /\ dd.builds[i].libraries = <<>>
    /\ \E i \in 1..Len(dd.builds) :
          /\ VersionLess(dd.builds[i].version, dd.max_version)
          /\ dd.builds[i].libraries # <<>>
    /\ \E i \in 1..Len(dd.builds) :
          /\ VersionEq(dd.builds[i].version, dd.max_version)
          /\ dd.builds[i].branch_lookups # <<>>

---------------------------------------------------------------------------
(* Claims about the repository resolver, checked under SpecRepos *)

\* The repositories a resolver call returned
ReturnedRepos ==
    IF ret.op = "get_repos" THEN ret.value ELSE <<ret.value.repo, ret.value.pr_repo>>

\* The answers the host gave in a call to get_repo for a repository name under a
\* session
Answers(log, session, reponame) ==
    {log[i].found : i \in {k \in 1..Len(log) :
                             /\ log[k].op = "get_repo"
                             /\ log[k].session = session
                             /\ log[k].name = reponame}}

\* A pair of repositories of a component: the source repository named exactly
\* name, and the PR repository name-internal or name under the same owner
RepoPairOf(pair, name) ==
    /\ pair[1].session = "gh"
    /\ pair[1].name = RepoName(name, "")
    /\ pair[2].session = "pr"
    /\ pair[2].owner = pair[1].owner
    /\ pair[2].name \in {RepoName(name, "-internal"), RepoName(name, "")}

\* What a resolver call that asked the host returned agrees with the answers.
ResolvedAsAnswered ==
    LET src      == Answers(ret.log, "gh", RepoName(ret.name, ""))
        internal == Answers(ret.log, "pr", RepoName(ret.name, "-internal"))
        plain    == Answers(ret.log, "pr", RepoName(ret.name, ""))
    IN  IF ret.exc = ""
        THEN /\ RepoPairOf(ReturnedRepos, ret.name)
             /\ ret.op = "get_repos" =>
                   /\ ret.name \in DOMAIN pr_repos
                   /\ pr_repos[ret.name] = ret.value
             /\ Answers(ret.log, "gh", ReturnedRepos[1].name) # {} =>
                   /\ src = {TRUE}
                   /\ ReturnedRepos[1].owner =
                         IF ret.op = "get_repos" THEN get_org(ret.f, ret.remote)
                         ELSE IF ret.rdf.org = None THEN ret.org
                         ELSE ret.rdf.org[1].login
                   /\ (ReturnedRepos[2].name = RepoName(ret.name, "-internal"))
                         = (internal = {TRUE})
                   /\ (ReturnedRepos[2].name = RepoName(ret.name, ""))
                         = (internal = {FALSE} /\ plain = {TRUE})
        ELSE /\ ret.exc \in {"ValueError", "UnknownObjectException"}
             /\ ret.value = None
             /\ src = {FALSE} =>
                   /\ ret.exc = "UnknownObjectException"
                   /\ ret.op = "get_repos" => ret.name \notin DOMAIN pr_repos

\* Every pair in the repository cache is a pair of its component.
CachedPairs == \A name \in DOMAIN pr_repos : RepoPairOf(pr_repos[name], name)

\* A step stores in the repository cache only the pair that a get_repos call
\* returned, under its name, and replaces nothing stored.
StoresOnlyReturned ==
    /\ \A name \in DOMAIN pr_repos :
          name \in DOMAIN pr_repos' /\ pr_repos'[name] = pr_repos[name]
    /\ \A name \in DOMAIN pr_repos' \ DOMAIN pr_repos :
          /\ ret'.op = "get_repos"
          /\ ret'.exc = ""
          /\ ret'.name = name

\* C10: get_repos(name, remote) and create_release_lib_data(name, ...) return a
\* source repository that is the repository named exactly name in the source
\* namespace, and a PR repository that is name-internal of the PR namespace when
\* that exists and name of the PR namespace only when name-internal is reported
\* not found; a not-found source repository is an error and stores nothing in
\* the repository cache.
C10_RepositoryPair ==
    /\ [](ret.op \in {"get_repos", "create_release_lib_data"} => ResolvedAsAnswered)
    /\ []CachedPairs
    /\ [][StoresOnlyReturned]_vars

\* C10 witness: a get_repos call that asked the host returned the repository
\* named name as PR repository after name-internal was reported not found.
C10_Witness ==
    /\ ret.op = "get_repos"
    /\ ret.exc = ""
    /\ ret.log # <<>>
    /\ Answers(ret.log, "pr", RepoName(ret.name, "-internal")) = {FALSE}
    /\ ret.value[2].name = RepoName(ret.name, "")
    /\ ret.value[1].owner = "RadeonOpenCompute"

---------------------------------------------------------------------------
(* Claims about the namespace resolver, checked under SpecRepos *)

\* The positions of a log at which the host was asked for a namespace
Asks(log, op, session) ==
    {i \in 1..Len(log) : log[i].op = op /\ log[i].session = session}

\* A pair of handles of one namespace: both organizations or both users, the
\* first of the source session and the second of the PR session
NamespacePair(pair, name) ==
    /\ pair[1].session = "gh"
    /\ pair[2].session = "pr"
    /\ pair[1].login = name
    /\ pair[2].login = name
    /\ pair[1].kind \in {"org", "user"}
    /\ pair[2].kind = pair[1].kind

\* The host was asked for both handles of a kind of namespace and knew both.
BothFound(log, op, name) ==
    /\ \E i \in Asks(log, op, "gh") : log[i].owner = name /\ log[i].found
    /\ \E i \in Asks(log, op, "pr") : log[i].owner = name /\ log[i].found

\* A user lookup comes only after an organization lookup reported not found.
UserOnlyAfterOrgNotFound(log) ==
    \A i \in Asks(log, "get_user", "gh") \cup Asks(log, "get_user", "pr") :
        \E j \in 1..(i - 1) : log[j].op = "get_organization" /\ ~log[j].found

\* What a get_org_or_user call gave back, against what the host answered
NamespaceAsAnswered ==
    /\ UserOnlyAfterOrgNotFound(ret.log)
    /\ IF ret.exc = ""
       THEN /\ NamespacePair(ret.value, ret.name)
            /\ ret.log # <<>> =>
                  BothFound(ret.log,
                            IF ret.value[1].kind = "org" THEN "get_organization"
                            ELSE "get_user",
                            ret.name)
            /\ ret.cached => /\ ret.name \in DOMAIN orgs_and_users
                             /\ orgs_and_users[ret.name] = ret.value
       ELSE /\ ret.exc = "ValueError"
            /\ ret.value = None
            /\ \E i \in 1..Len(ret.log) : ret.log[i].op = "get_user" /\ ~ret.log[i].found
            /\ ret.cached => ret.name \notin DOMAIN orgs_and_users

\* Every entry of the namespace cache is a pair of handles of its name.
CachedNamespaces ==
    \A name \in DOMAIN orgs_and_users : NamespacePair(orgs_and_users[name], name)

\* A step adds a namespace to the cache only when the host gave both handles of
\* one kind in that step, and never replaces or drops one.
StoresOnlyResolved ==
    /\ \A name \in DOMAIN orgs_and_users :
          name \in DOMAIN orgs_and_users' /\ orgs_and_users'[name] = orgs_and_users[name]
    /\ \A name \in DOMAIN orgs_and_users' \ DOMAIN orgs_and_users :
          /\ ret'.op \in {"get_org_or_user", "get_repos"}
          /\ BothFound(ret'.log,
                       IF orgs_and_users'[name][1].kind = "org" THEN "get_organization"
                       ELSE "get_user",
                       name)

\* C11: get_org_or_user(name) returns either the pair of organization handles
\* or the pair of user handles for name, never one of each; the user lookup is
\* attempted only after an organization lookup reported not found; when the user
\* lookup is also not found it raises ValueError and the namespace cache gains no
\* entry for name; a namespace is stored only after both handles were obtained.
C11_NamespacePair ==
    /\ [](ret.op = "get_org_or_user" => NamespaceAsAnswered)
    /\ []CachedNamespaces
    /\ [][StoresOnlyResolved]_vars

\* C11 witness: the host knew the source organization but not the PR
\* organization, and get_org_or_user returned the pair of user handles and
\* stored it.
C11_Witness ==
    /\ ret.op = "get_org_or_user"
    /\ ret.cached
    /\ ret.exc = ""
    /\ \E i \in Asks(ret.log, "get_organization", "gh") : ret.log[i].found
    /\ \E i \in Asks(ret.log, "get_organization", "pr") : ~ret.log[i].found
    /\ ret.value[1].kind = "user"
    /\ ret.value[2].kind = "user"
    /\ orgs_and_users[ret.name] = ret.value

\* C19: get_repos(name, remote) returns the repositories of the namespace
\* get_org(remote), also when the name was requested earlier with a different
\* remote or through get_tag.
C19_ReposOfRequestedRemote ==
    (ret.op = "get_repos" /\ ret.exc = "")
        => /\ ret.value[1].owner = get_org(ret.f, ret.remote)
           /\ ret.value[2].owner = get_org(ret.f, ret.remote)

\* The same of the calls that asked the host: holds, so C19 fails only through
\* a pair stored under the name by an earlier call.
AskedReposOfRequestedRemote ==
    (ret.op = "get_repos" /\ ret.exc = "" /\ ret.log # <<>>)
        => /\ ret.value[1].owner = get_org(ret.f, ret.remote)
           /\ ret.value[2].owner = get_org(ret.f, ret.remote)

---------------------------------------------------------------------------
(* Claims about transport failures, checked under SpecTransport *)

\* A build of create_release_bundle_data is under way or has ended.
InBuild == call.status \in {"running", "returned", "raised"}

\* Every remote call of the build that failed in transport ended the build with
\* its exception.
FailureAborts ==
    call.remote_faults # <<>>
        => /\ call.status = "raised"
           /\ call.exc = call.remote_faults[1]
           /\ Len(call.remote_faults) = 1

\* Every entry of missing_branches is for a lookup in which the host reported
\* that the branch does not exist.
MissingOnlyNonExisting ==
    /\ Len(call.missing_branches)
          = Len(SelectSeq(call.branch_lookups, LAMBDA e : ~e.found))
    /\ \A i \in 1..Len(call.branch_lookups) :
          ~call.branch_lookups[i].found
             => /\ call.branch_lookups[i].exc = ""
                /\ (call.f.branch = None \/ call.branch_lookups[i].tip = None)

\* C17: in create_release_bundle_data a transport failure of any remote call,
\* including the release-branch lookup, aborts the build; only a branch that
\* does not exist is recorded as missing.
C17_TransportFailureAborts ==
    InBuild => FailureAborts /\ MissingOnlyNonExisting

\* The same of the builds in which no release-branch lookup failed in transport:
\* holds, so C17 fails only at the release-branch lookup.
FailureAbortsElsewhere ==
    (InBuild /\ \A i \in 1..Len(call.branch_lookups) : call.branch_lookups[i].exc = "")
        => FailureAborts /\ MissingOnlyNonExisting

---------------------------------------------------------------------------
(* Claims about the release orchestrator, checked under SpecRelease *)

\* The tags and releases the host holds under a name
TagsNamed(h, name) == {i \in 1..Len(h.tags) : h.tags[i].name = name}

ReleasesOf(h, name) == {i \in 1..Len(h.releases) : h.releases[i].tag = name}

\* The host holds the tag name at a commit.
TagAt(h, name, commit) ==
    \E i \in TagsNamed(h, name) : h.tags[i].object = commit

\* The requests of a log that the host carried out, by operation and name
Created(log, op, name) ==
    {i \in 1..Len(log) : log[i].op = op /\ log[i].name = name /\ log[i].exc = ""}

\* A confirmed do_release has ended.
ReleaseRan == ret.op = "do_release" /\ ret.confirmed

\* A confirmed do_release ended right after a confirmed do_release for the same
\* entry that created the tag and its release.
SecondRelease ==
    /\ ReleaseRan
    /\ ret.prev.op = "do_release"
    /\ ret.prev.confirmed
    /\ ret.prev.lib = ret.lib
    /\ Created(ret.prev.log, "create_git_tag", tag(ret.lib)) # {}
    /\ Created(ret.prev.log, "create_git_release", tag(ret.lib)) # {}

\* C12: Tag+Release is idempotent: on a host that rejects creating a tag that
\* already exists, the second of two confirmed do_release runs for the same
\* entry does not raise and leaves the host with exactly one release and one tag
\* rocm-{full_version} for the entry, at the same commit as after the first run.
C12_ReleaseIdempotent ==
    SecondRelease
        => /\ ret.exc = ""
           /\ host = ret.before.host
           /\ Cardinality(TagsNamed(host, tag(ret.lib))) = 1
           /\ Cardinality(ReleasesOf(host, tag(ret.lib))) = 1
           /\ TagAt(host, tag(ret.lib), ret.lib.commit)
           /\ TagAt(ret.before.host, tag(ret.lib), ret.lib.commit)

\* C12 witness: the second run met the host's rejection of the existing tag.
C12_Witness ==
    /\ SecondRelease
    /\ ret.absorbed = AlreadyExists
    /\ Len(ret.log) = 1
    /\ host.releases # <<>>

\* C13: in a confirmed do_release only the failure "tag already exists" is
\* absorbed as an already-released no-op; every other failure of tag or release
\* creation propagates to the caller as an error.
C13_OnlyExistingTagAbsorbed ==
    ReleaseRan
        => \A i \in 1..Len(ret.log) :
              ret.log[i].exc # ""
                 => IF ret.log[i].exc = AlreadyExists /\ ret.log[i].op = "create_git_tag"
                    THEN ret.exc = "" /\ ret.absorbed = AlreadyExists
                    ELSE ret.exc = ret.log[i].exc /\ ret.absorbed = ""

\* C14: no side effect happens without confirmation: when the confirmation
\* oracle answers no, do_release creates no tag and no release and
\* do_create_pull deletes no directory, creates none, pushes no branch and opens
\* no pull request; the host and the working directory are unchanged.
C14_NothingWithoutConfirmation ==
    (ret.op \in {"do_release", "do_create_pull"} /\ ~ret.confirmed)
        => /\ host = ret.before.host
           /\ disk = ret.before.disk
           /\ ret.log = <<>>
           /\ ret.exc = ""
           /\ ret.value = None

\* C14 witness: do_create_pull was declined with a directory of the component's
\* name in place and a tag on the host, right after a declined do_release.
C14_Witness ==
    /\ ret.op = "do_create_pull"
    /\ ~ret.confirmed
    /\ ret.lib.name \in disk
    /\ host.tags # <<>>
    /\ ret.prev.op = "do_release"
    /\ ~ret.prev.confirmed

\* A confirmed do_release found neither of its tags on the host, nor a release,
\* and every request it made succeeded.
FreshRelease ==
    /\ ReleaseRan
    /\ ~HostHasTag(ret.before.host, tag(ret.lib))
    /\ ~HostHasTag(ret.before.host, alias_tag(ret.lib))
    /\ ~HostHasRelease(ret.before.host, tag(ret.lib))
    /\ \A i \in 1..Len(ret.log) : ret.log[i].exc = ""

\* The version of an entry is written with two components.
TwoComponents(lib) == count(lib.rocm_version, DOT) = 1

ThreeComponents(lib) == count(lib.rocm_version, DOT) = 2

\* The operations and names of the requests of a log, in order
Requests(log) == [i \in 1..Len(log) |-> <<log[i].op, log[i].name>>]

\* C15: a confirmed do_release on an entry whose version has two components,
\* against a host where neither tag exists and every call succeeds, creates
\* rocm-{version}.0 and the alias rocm-{version} at the entry's commit; on an
\* entry with three components it creates only rocm-{version} and no alias; the
\* alias is never created before the padded tag and release.
C15_AliasForTwoComponents ==
    /\ FreshRelease
          => LET lib    == ret.lib
                 padded == RocmPrefix \o lib.rocm_version \o <<DOT, "0">>
                 plain  == RocmPrefix \o lib.rocm_version
             IN  /\ TwoComponents(lib)
                       => /\ Requests(ret.log) = <<<<"create_git_tag", padded>>,
                                                   <<"create_git_release", padded>>,
                                                   <<"create_git_tag", plain>>>>
                          /\ TagAt(host, padded, lib.commit)
                          /\ TagAt(host, plain, lib.commit)
                          /\ Cardinality(ReleasesOf(host, padded)) = 1
                          /\ Len(host.tags) = Len(ret.before.host.tags) + 2
                 /\ ThreeComponents(lib)
                       => /\ Requests(ret.log) = <<<<"create_git_tag", plain>>,
                                                   <<"create_git_release", plain>>>>
                          /\ TagAt(host, plain, lib.commit)
                          /\ Cardinality(ReleasesOf(host, plain)) = 1
                          /\ Len(host.tags) = Len(ret.before.host.tags) + 1
    /\ ReleaseRan
          => \A i \in 1..Len(ret.log) :
                (i > 2 /\ ret.log[i].op = "create_git_tag")
                   => /\ ret.log[1].op = "create_git_tag" /\ ret.log[1].exc = ""
                      /\ ret.log[2].op = "create_git_release" /\ ret.log[2].exc = ""
                      /\ ret.log[i].name # ret.log[1].name

\* C15 witness: a two-component entry was released on a host without tags, and
\* both tags and the release were created.
C15_Witness ==
    /\ FreshRelease
    /\ TwoComponents(ret.lib)
    /\ Len(ret.log) = 3
    /\ Len(host.tags) = 2
    /\ Len(host.releases) = 1

\* A confirmed do_create_pull has ended, by returning or by raising.
PullRan == ret.op = "do_create_pull" /\ ret.confirmed

\* C16: after a confirmed do_create_pull ends, whether it returned the pull
\* request or raised at remote creation, fetch, branch creation, push or
\* pull-request creation, the scratch directory <cwd>/<name> does not exist.
C16_ScratchRemoved ==
    PullRan => ret.lib.name \notin disk

\* The same of the calls that got past the "with" block: holds, so the directory
\* is left behind only by a failure inside it.
ScratchRemovedAfterPush ==
    (PullRan /\ \E i \in 1..Len(ret.log) : ret.log[i].op = "create_pull")
        => ret.lib.name \notin disk

\* The order of the steps of a confirmed do_create_pull that found a directory
\* in place
PullOrder ==
    <<"rmtree", "Repo.init">> \o GitSteps \o <<"rmtree", "create_pull">>

\* The steps of a log are the first steps of the order, the first deletion
\* left out when there was no directory to delete.
InPullOrder(log, had_dir) ==
    LET ops == [i \in 1..Len(log) |-> log[i].op]
        order == IF had_dir THEN PullOrder ELSE Tail(PullOrder)
    IN  /\ Len(ops) <= Len(order)
        /\ ops = SubSeq(order, 1, Len(ops))

\* A step of the log failed: it raised, or it reported a rejection.
Failed(e) == e.exc # "" \/ e.result # "ok"

\* C18: in a confirmed do_create_pull the steps happen in the order: delete any
\* pre-existing scratch directory, fetch from the source repository, create the
\* local branch at the entry's commit, push it to the bot fork under the release
\* branch name, open the pull request with that branch as head and develop as
\* base.  A pull request is opened only after the push succeeded; if any earlier
\* step fails the error propagates, nothing is retried, and none is opened.
C18_PullOrderAndPropagation ==
    PullRan
        => /\ InPullOrder(ret.log, ret.lib.name \in ret.before.disk)
           /\ host.pulls # ret.before.host.pulls
                 => /\ host.pulls = Append(ret.before.host.pulls,
                                           [head |-> pull_head(ret.lib),
                                            base |-> "develop",
                                            repo |-> ret.lib.pr_repo])
                    /\ \E i \in 1..Len(ret.log) :
                          ret.log[i].op = "push" /\ ~Failed(ret.log[i])
                    /\ host.branches[branch(ret.lib)] = ret.lib.commit
           /\ (\E i \in 1..Len(ret.log) : Failed(ret.log[i]))
                 => /\ ret.exc # ""
                    /\ host.pulls = ret.before.host.pulls

\* The same with a push that either succeeds or raises: holds, so C18 fails
\* only through a push whose rejection is reported in its result.
PullOrderWhenPushRaises ==
    (PullRan /\ \A i \in 1..Len(ret.log) : ret.log[i].result # "rejected")
        => /\ InPullOrder(ret.log, ret.lib.name \in ret.before.disk)
           /\ host.pulls # ret.before.host.pulls
                 => \E i \in 1..Len(ret.log) :
                       ret.log[i].op = "push" /\ ~Failed(ret.log[i])
           /\ (\E i \in 1..Len(ret.log) : Failed(ret.log[i]))
                 => ret.exc # "" /\ host.pulls = ret.before.host.pulls

\* C20: retrying Tag+Release converges for a two-component version: from a host
\* state in which rocm-{version}.0 exists and the alias rocm-{version} does not,
\* a further confirmed do_release on the entry, with the host accepting creation
\* of tags that do not yet exist, ends with the alias at the entry's commit.
C20_RetryCreatesAlias ==
    (/\ ReleaseRan
     /\ TwoComponents(ret.lib)
     /\ HostHasTag(ret.before.host, tag(ret.lib))
     /\ ~HostHasTag(ret.before.host, alias_tag(ret.lib))
     /\ \A i \in 1..Len(ret.log) : ret.log[i].exc \in {"", AlreadyExists})
        => TagAt(host, alias_tag(ret.lib), ret.lib.commit)

===========================================================================
